---- MODULE Spec2Model ----
(***************************************************************************)
(* wave_stake: the staking program of packages/programs/wave_stake.        *)
(*                                                                         *)
(* The records GlobalState, Pool and User, the eight instruction handlers  *)
(* and the reward arithmetic, with the integer widths of the source:       *)
(* u64 and i64 fields are 64-bit values, u16 fields 16-bit values.         *)
(*                                                                         *)
(* A 64-bit value does not fit the model checker's integers, so a natural  *)
(* number is a sequence of limbs, least significant first, in base Base,   *)
(* without leading zero limbs (the number 0 is the empty sequence).  An    *)
(* i64 is held as its two's-complement bit pattern, a number below 2^64.   *)
(***************************************************************************)
EXTENDS Integers, Sequences, FiniteSets, TLC

----------------------------------------------------------------------------
(* Natural numbers of arbitrary size *)

Base == 2^15

RECURSIVE Norm(_)
Norm(a) == IF a = <<>> THEN <<>>
           ELSE IF a[Len(a)] = 0 THEN Norm(SubSeq(a, 1, Len(a) - 1)) ELSE a

\* The number n, for a model-checker integer n >= 0.
RECURSIVE Big(_)
Big(n) == IF n = 0 THEN <<>> ELSE <<n % Base>> \o Big(n \div Base)

Zero == <<>>
One == <<1>>

Lo(a) == IF a = <<>> THEN 0 ELSE Head(a)
Hi(a) == IF a = <<>> THEN <<>> ELSE Tail(a)

RECURSIVE AddC(_, _, _)
AddC(a, b, c) ==
    IF a = <<>> /\ b = <<>> THEN Big(c)
    ELSE <<(Lo(a) + Lo(b) + c) % Base>>
             \o AddC(Hi(a), Hi(b), (Lo(a) + Lo(b) + c) \div Base)

BigAdd(a, b) == IF b = <<>> THEN a ELSE IF a = <<>> THEN b ELSE AddC(a, b, 0)

RECURSIVE LtFrom(_, _, _)
LtFrom(a, b, i) == IF i = 0 THEN FALSE
                   ELSE IF a[i] # b[i] THEN a[i] < b[i] ELSE LtFrom(a, b, i - 1)

BigLt(a, b) == IF Len(a) # Len(b) THEN Len(a) < Len(b) ELSE LtFrom(a, b, Len(a))
BigLeq(a, b) == ~BigLt(b, a)

RECURSIVE SubB(_, _, _)
SubB(a, b, c) ==
    IF a = <<>> THEN <<>>
    ELSE <<(Lo(a) - Lo(b) - c + Base) % Base>>
             \o SubB(Hi(a), Hi(b), IF Lo(a) - Lo(b) - c < 0 THEN 1 ELSE 0)

\* a - b, for a >= b.
BigSub(a, b) == IF b = <<>> THEN a ELSE Norm(SubB(a, b, 0))

RECURSIVE MulC(_, _, _)
MulC(a, k, c) ==
    IF a = <<>> THEN Big(c)
    ELSE <<(Head(a) * k + c) % Base>> \o MulC(Tail(a), k, (Head(a) * k + c) \div Base)

\* a * k, for one limb k.
MulLimb(a, k) == IF k = 0 THEN <<>> ELSE IF k = 1 THEN a ELSE MulC(a, k, 0)

Shift(a) == IF a = <<>> THEN <<>> ELSE <<0>> \o a

RECURSIVE BigMul(_, _)
BigMul(a, b) == IF b = <<>> \/ a = <<>> THEN <<>>
                ELSE BigAdd(MulLimb(a, Head(b)), Shift(BigMul(a, Tail(b))))

\* The largest d in lo..hi with d * b <= r, by bisection.
RECURSIVE Digit(_, _, _, _)
Digit(r, b, lo, hi) ==
    IF lo = hi THEN lo
    ELSE IF BigLeq(MulLimb(b, (lo + hi + 1) \div 2), r)
         THEN Digit(r, b, (lo + hi + 1) \div 2, hi)
         ELSE Digit(r, b, lo, ((lo + hi + 1) \div 2) - 1)

\* One step of long division: rest is the quotient and remainder of the higher
\* limbs, h the next limb.
DivDigit(restq, cur, d, b) ==
    [q |-> Norm(<<d>> \o restq), r |-> BigSub(cur, MulLimb(b, d))]
DivCur(restq, cur, b) ==
    IF BigLt(cur, b) THEN [q |-> Norm(<<0>> \o restq), r |-> cur]
    ELSE IF Len(b) = 1
         THEN [q |-> Norm(<<(Lo(cur) + Base * Lo(Hi(cur))) \div b[1]>> \o restq),
               r |-> Big((Lo(cur) + Base * Lo(Hi(cur))) % b[1])]
         ELSE DivDigit(restq, cur, Digit(cur, b, 0, Base - 1), b)
DivStep(rest, h, b) == DivCur(rest.q, Norm(<<h>> \o rest.r), b)

\* Quotient and remainder of a by b, for b > 0.
RECURSIVE BigDivMod(_, _)
BigDivMod(a, b) ==
    IF a = <<>> THEN [q |-> <<>>, r |-> <<>>]
    ELSE DivStep(BigDivMod(Tail(a), b), Head(a), b)

BigDiv(a, b) == BigDivMod(a, b).q
BigMod(a, b) == BigDivMod(a, b).r

\* 2^k
Pow2(k) == [i \in 1..((k \div 15) + 1) |-> IF i = (k \div 15) + 1 THEN 2^(k % 15) ELSE 0]

----------------------------------------------------------------------------
(* The integer types of the program *)

U64_MAX == BigSub(Pow2(64), One)
U16_MAX == 2^16 - 1

\* The failed result of a checked operation (Option::None), and the value of a
\* computation that panicked.
None == <<-1>>
Panic == <<-2>>

Fit64(x) == IF BigLeq(x, U64_MAX) THEN x ELSE None

\* u64::checked_add, checked_sub, checked_mul, checked_div.  An operand that is
\* None is the failed earlier link of a chain `a.checked_x(b).ok_or(..)?.checked_y(c)`.
checked_add(a, b) == IF a = None \/ b = None THEN None ELSE Fit64(BigAdd(a, b))
checked_sub(a, b) == IF a = None \/ b = None THEN None
                     ELSE IF BigLt(a, b) THEN None ELSE BigSub(a, b)
checked_mul(a, b) == IF a = None \/ b = None THEN None ELSE Fit64(BigMul(a, b))
checked_div(a, b) == IF a = None \/ b = None THEN None
                     ELSE IF b = Zero THEN None ELSE BigDiv(a, b)

\* `x as u64` of a u128: the low 64 bits.
as_u64(x) == IF BigLeq(x, U64_MAX) THEN x ELSE BigMod(x, Pow2(64))

\* An i64 is its two's-complement pattern; the sign bit is bit 63.  The casts
\* `x as u64` of an i64 and `x as i64` of a u64 keep the pattern.
IsNeg(p) == BigLeq(Pow2(63), p)

wrapping_add(a, b) == as_u64(BigAdd(a, b))
wrapping_sub(a, b) == IF BigLeq(b, a) THEN BigSub(a, b)
                      ELSE BigSub(BigAdd(a, Pow2(64)), b)

\* i64 `a + b` and `a - b`: the build's overflow checks make an overflow a
\* panic; without them the result wraps.
i64_add(a, b, checks) ==
    IF checks /\ IsNeg(a) = IsNeg(b) /\ IsNeg(wrapping_add(a, b)) # IsNeg(a)
    THEN Panic ELSE wrapping_add(a, b)
i64_sub(a, b, checks) ==
    IF checks /\ IsNeg(a) # IsNeg(b) /\ IsNeg(wrapping_sub(a, b)) # IsNeg(a)
    THEN Panic ELSE wrapping_sub(a, b)

\* i64 `a >= b`
i64_ge(a, b) == IF IsNeg(a) # IsNeg(b) THEN IsNeg(b) ELSE BigLeq(b, a)

\* u16 `a + b`
NoneU16 == 0 - 1
PanicU16 == 0 - 2
u16_add(a, b, checks) ==
    IF a + b > U16_MAX THEN (IF checks THEN PanicU16 ELSE (a + b) % (U16_MAX + 1))
    ELSE a + b

\* u64 `a += 1`
u64_incr(a, checks) ==
    IF a = U64_MAX THEN (IF checks THEN Panic ELSE Zero) ELSE BigAdd(a, One)

----------------------------------------------------------------------------
(* Records *)

\* Basis points of the factor 1: the share of the pool and the bonus multiplier
\* are in units of 1/10000.
BPS == 10000

\* An account that does not exist (never created, or closed) holds no record.
NoGlobalState == [is_initialized |-> FALSE, authority |-> "", pool_count |-> Zero]

NoPool == [is_initialized |-> FALSE,
           pool_id |-> "", stake_mint |-> "", lst_mint |-> "", reward_mint |-> "",
           reward_per_second |-> Zero, lock_duration |-> Zero,
           lock_bonus_percentage |-> 0,
           total_staked |-> Zero, total_reward_distributed |-> Zero,
           last_update_timestamp |-> Zero, authority |-> ""]

NoUser == [is_initialized |-> FALSE,
           amount |-> Zero, lock_type |-> 0,
           lock_start_timestamp |-> Zero, lock_end_timestamp |-> Zero,
           bonus_multiplier |-> 0, last_reward_claim_timestamp |-> Zero]

\* The outcome of an instruction: its error ("Ok" when it returned Ok(())), the
\* records it leaves, and the amount it logged (the reward, or for
\* close_user_account the amount of the closed position).  An instruction that fails
\* leaves the records it was given: the runtime discards the writes of a failed
\* instruction.
Done(p, u, reward) == [err |-> "Ok", pool |-> p, user |-> u, reward |-> reward]
Fail(e, p, u) == [err |-> e, pool |-> p, user |-> u, reward |-> Zero]

----------------------------------------------------------------------------
(* Instruction handlers *)

initialize(authority) ==
    [is_initialized |-> TRUE, authority |-> authority, pool_count |-> Zero]

create_user_account(now) ==
    [is_initialized |-> TRUE,
     amount |-> Zero,
     lock_type |-> 0,
     lock_start_timestamp |-> Zero,
     lock_end_timestamp |-> Zero,
     bonus_multiplier |-> BPS,
     last_reward_claim_timestamp |-> now]

create_pool(pool_id, stake_mint, lst_mint, reward_mint, reward_per_second, lock_duration, lock_bonus_percentage, now, authority) ==
    [is_initialized |-> TRUE,
     pool_id |-> pool_id, stake_mint |-> stake_mint, lst_mint |-> lst_mint,
     reward_mint |-> reward_mint,
     reward_per_second |-> reward_per_second,
     lock_duration |-> lock_duration,
     lock_bonus_percentage |-> lock_bonus_percentage,
     total_staked |-> Zero,
     total_reward_distributed |-> Zero,
     last_update_timestamp |-> now,
     authority |-> authority]

\* A catch-up that stores the emission of the elapsed seconds instead of adding it.
catch_up_overwrites(pool, time_elapsed) ==
    IF BigLt(Zero, time_elapsed) /\ BigLt(Zero, pool.total_staked)
    THEN checked_mul(pool.reward_per_second, time_elapsed)
    ELSE pool.total_reward_distributed

\* Lines 81-91 of stake: the pool's total_reward_distributed after the catch-up,
\* None when a checked step overflows.
catch_up(pool, time_elapsed) ==
    IF BigLt(Zero, time_elapsed) /\ BigLt(Zero, pool.total_staked)
    THEN checked_add(pool.total_reward_distributed,
                     checked_mul(pool.reward_per_second, time_elapsed))
    ELSE pool.total_reward_distributed

\* Lines 99-114 of stake: the user's lock fields after a deposit.
\* lock_end is Panic, or bonus PanicU16, when the unchecked addition panics.
lock_fields(user, pool, now, lock_type, first_deposit, checks) ==
    IF ~first_deposit
    THEN [lock_type |-> user.lock_type,
          lock_start |-> user.lock_start_timestamp,
          lock_end |-> user.lock_end_timestamp,
          bonus |-> user.bonus_multiplier]
    ELSE IF lock_type = 1
    THEN [lock_type |-> lock_type,
          lock_start |-> now,
          lock_end |-> i64_add(now, pool.lock_duration, checks),
          bonus |-> u16_add(BPS, pool.lock_bonus_percentage, checks)]
    ELSE [lock_type |-> lock_type,
          lock_start |-> Zero,
          lock_end |-> Zero,
          bonus |-> BPS]

\* A stake that takes every deposit for a first deposit.
is_new_user_always(user) == TRUE

is_new_user(user) == user.amount = Zero

\* A stake that leaves the pool's last_update_timestamp as it was.
stake_commit_keeps_update_time(pool, user, now, amount, trd, new_amount, terms, new_total) ==
    IF trd = None \/ new_amount = None THEN Fail("MathOverflow", pool, user)
    ELSE IF terms.lock_end = Panic \/ terms.bonus = PanicU16 THEN Fail("Panic", pool, user)
    ELSE IF new_total = None THEN Fail("MathOverflow", pool, user)
    ELSE Done([pool EXCEPT !.total_reward_distributed = trd,
                           !.total_staked = new_total],
              [user EXCEPT !.amount = new_amount,
                           !.lock_type = terms.lock_type,
                           !.lock_start_timestamp = terms.lock_start,
                           !.lock_end_timestamp = terms.lock_end,
                           !.bonus_multiplier = terms.bonus,
                           !.last_reward_claim_timestamp = now],
              Zero)

stake_commit(pool, user, now, amount, trd, new_amount, terms, new_total) ==
    IF trd = None \/ new_amount = None THEN Fail("MathOverflow", pool, user)
    ELSE IF terms.lock_end = Panic \/ terms.bonus = PanicU16 THEN Fail("Panic", pool, user)
    ELSE IF new_total = None THEN Fail("MathOverflow", pool, user)
    ELSE Done([pool EXCEPT !.total_reward_distributed = trd,
                           !.last_update_timestamp = now,
                           !.total_staked = new_total],
              [user EXCEPT !.amount = new_amount,
                           !.lock_type = terms.lock_type,
                           !.lock_start_timestamp = terms.lock_start,
                           !.lock_end_timestamp = terms.lock_end,
                           !.bonus_multiplier = terms.bonus,
                           !.last_reward_claim_timestamp = now],
              Zero)

\* A stake that does not add the deposit to the pool's total.
stake_elapsed_keeps_total(pool, user, now, amount, lock_type, checks, time_elapsed) ==
    IF time_elapsed = Panic THEN Fail("Panic", pool, user)
    ELSE stake_commit(pool, user, now, amount,
                      catch_up(pool, time_elapsed),
                      checked_add(user.amount, amount),
                      lock_fields(user, pool, now, lock_type, is_new_user(user), checks),
                      checked_add(pool.total_staked, Zero))

stake_elapsed(pool, user, now, amount, lock_type, checks, time_elapsed) ==
    IF time_elapsed = Panic THEN Fail("Panic", pool, user)
    ELSE stake_commit(pool, user, now, amount,
                      catch_up(pool, time_elapsed),
                      checked_add(user.amount, amount),
                      lock_fields(user, pool, now, lock_type, is_new_user(user), checks),
                      checked_add(pool.total_staked, amount))

stake(pool, user, now, amount, lock_type, checks) ==
    IF ~BigLt(Zero, amount) THEN Fail("InvalidAmount", pool, user)
    ELSE stake_elapsed(pool, user, now, amount, lock_type, checks,
                       i64_sub(now, pool.last_update_timestamp, checks))

\* A share that is the whole pool when nothing is staked.
user_share_full_when_empty(user, pool) ==
    IF BigLt(Zero, pool.total_staked)
    THEN as_u64(BigDiv(BigMul(user.amount, Big(BPS)), pool.total_staked))
    ELSE Big(BPS)

\* Lines 148-156 and 192-200: the user's share of the pool in basis points.
user_share(user, pool) ==
    IF BigLt(Zero, pool.total_staked)
    THEN as_u64(BigDiv(BigMul(user.amount, Big(BPS)), pool.total_staked))
    ELSE Zero

\* Lines 158-167 and 202-211: the reward of a user over time_elapsed seconds,
\* None when a checked step overflows.
rewards(user, pool, time_elapsed) ==
    checked_div(
        checked_mul(
            checked_mul(
                checked_mul(pool.reward_per_second, time_elapsed),
                user_share(user, pool)),
            Big(user.bonus_multiplier)),
        Big(BPS))

\* An unstake that does not write the pool's total back.
unstake_commit_keeps_total(pool, user, now, amount, pending_rewards, new_amount, new_total) ==
    IF pending_rewards = None \/ new_amount = None \/ new_total = None
    THEN Fail("MathOverflow", pool, user)
    ELSE Done(pool,
              [user EXCEPT !.amount = new_amount,
                           !.last_reward_claim_timestamp = now],
              pending_rewards)

unstake_commit(pool, user, now, amount, pending_rewards, new_amount, new_total) ==
    IF pending_rewards = None \/ new_amount = None \/ new_total = None
    THEN Fail("MathOverflow", pool, user)
    ELSE Done([pool EXCEPT !.total_staked = new_total],
              [user EXCEPT !.amount = new_amount,
                           !.last_reward_claim_timestamp = now],
              pending_rewards)

\* An unstake that catches the pool up to now before it withdraws.
unstake_elapsed_catches_up(pool, user, now, amount, time_elapsed) ==
    IF time_elapsed = Panic THEN Fail("Panic", pool, user)
    ELSE unstake_commit([pool EXCEPT !.last_update_timestamp = now], user, now, amount,
                        rewards(user, pool, time_elapsed),
                        checked_sub(user.amount, amount),
                        checked_sub(pool.total_staked, amount))

unstake_elapsed(pool, user, now, amount, time_elapsed) ==
    IF time_elapsed = Panic THEN Fail("Panic", pool, user)
    ELSE unstake_commit(pool, user, now, amount,
                        rewards(user, pool, time_elapsed),
                        checked_sub(user.amount, amount),
                        checked_sub(pool.total_staked, amount))

unstake(pool, user, now, amount, checks) ==
    IF ~BigLt(Zero, amount) THEN Fail("InvalidAmount", pool, user)
    ELSE IF ~BigLeq(amount, user.amount) THEN Fail("InsufficientStake", pool, user)
    ELSE IF user.lock_type = 1 /\ ~i64_ge(now, user.lock_end_timestamp)
    THEN Fail("StillInLockPeriod", pool, user)
    ELSE unstake_elapsed(pool, user, now, amount,
                         i64_sub(now, user.last_reward_claim_timestamp, checks))

\* A claim that leaves the user's last_reward_claim_timestamp as it was.
claim_commit_keeps_timestamp(pool, user, now, reward, trd) ==
    IF reward = None THEN Fail("MathOverflow", pool, user)
    ELSE IF ~BigLt(Zero, reward) THEN Fail("NoRewardsAvailable", pool, user)
    ELSE IF trd = None THEN Fail("MathOverflow", pool, user)
    ELSE Done([pool EXCEPT !.total_reward_distributed = trd], user, reward)

claim_commit(pool, user, now, reward, trd) ==
    IF reward = None THEN Fail("MathOverflow", pool, user)
    ELSE IF ~BigLt(Zero, reward) THEN Fail("NoRewardsAvailable", pool, user)
    ELSE IF trd = None THEN Fail("MathOverflow", pool, user)
    ELSE Done([pool EXCEPT !.total_reward_distributed = trd],
              [user EXCEPT !.last_reward_claim_timestamp = now],
              reward)

\* A claim that adds nothing to the pool's total.
claim_reward_adds_nothing(pool, user, now, reward) ==
    claim_commit(pool, user, now, reward,
                 checked_add(pool.total_reward_distributed, Zero))

claim_reward(pool, user, now, reward) ==
    claim_commit(pool, user, now, reward,
                 checked_add(pool.total_reward_distributed, reward))

claim_rewards(pool, user, now, checks) ==
    IF i64_sub(now, user.last_reward_claim_timestamp, checks) = Panic
    THEN Fail("Panic", pool, user)
    ELSE claim_reward(pool, user, now,
             rewards(user, pool, i64_sub(now, user.last_reward_claim_timestamp, checks)))

\* An update_pool that clears the lock duration when its argument is absent.
update_pool_clears_absent(pool, new_reward_per_second, new_lock_duration, new_lock_bonus_percentage) ==
    [pool EXCEPT
        !.reward_per_second =
            IF new_reward_per_second # None THEN new_reward_per_second ELSE @,
        !.lock_duration =
            IF new_lock_duration # None THEN new_lock_duration ELSE Zero,
        !.lock_bonus_percentage =
            IF new_lock_bonus_percentage # NoneU16 THEN new_lock_bonus_percentage ELSE @]

\* An Option argument of update_pool is None or its value.
update_pool(pool, new_reward_per_second, new_lock_duration, new_lock_bonus_percentage) ==
    [pool EXCEPT
        !.reward_per_second =
            IF new_reward_per_second # None THEN new_reward_per_second ELSE @,
        !.lock_duration =
            IF new_lock_duration # None THEN new_lock_duration ELSE @,
        !.lock_bonus_percentage =
            IF new_lock_bonus_percentage # NoneU16 THEN new_lock_bonus_percentage ELSE @]

\* A close that takes the closed position out of the pool's total.
close_user_account_withdraws(pool, user, now) ==
    IF user.lock_type = 1 /\ ~i64_ge(now, user.lock_end_timestamp)
    THEN Fail("StillInLockPeriod", pool, user)
    ELSE Done([pool EXCEPT !.total_staked = BigSub(@, user.amount)], NoUser, user.amount)

close_user_account(pool, user, now) ==
    IF user.lock_type = 1 /\ ~i64_ge(now, user.lock_end_timestamp)
    THEN Fail("StillInLockPeriod", pool, user)
    ELSE Done(pool, NoUser, user.amount)

----------------------------------------------------------------------------
(* The ledger: the accounts, the clock, and the instructions sent to the program *)

Signers == {"alice", "bob"}
Stakers == {"alice", "bob"}

\* The arguments of create_pool, and the Option arguments of update_pool.
PoolRates == {Big(100)}
PoolDurations == {Big(20)}
PoolBonuses == {5000}
NewRates == {None, U64_MAX}
NewDurations == {None, Pow2(63)}
NewBonuses == {NoneU16, 60000}

\* The arguments of stake and unstake, and the seconds between two instructions.
Amounts == {Zero, Big(500), U64_MAX}
LockTypes == {0, 1}
TimeSteps == {10}

StartTime == 1700000000
MaxCalls == 3
MaxTicks == 2

VARIABLES
    global_state,       \* the GlobalState account
    pool,               \* the Pool account of pool id "wave"
    users,              \* the User account of each owner in that pool
    clock,              \* Clock::get()?.unix_timestamp
    last,               \* the last instruction that succeeded: name, signer, arguments
    terms_at_lock,      \* the pool's lock terms when each user's lock fields were set
    calls,              \* the number of instructions that changed a record
    ticks               \* the number of clock advances

vars == <<global_state, pool, users, clock, last, terms_at_lock, calls, ticks>>

Call(op, signer, args, reward) ==
    [op |-> op, signer |-> signer, args |-> args, reward |-> reward]

PoolTerms(p) == [lock_duration |-> p.lock_duration,
                 lock_bonus_percentage |-> p.lock_bonus_percentage]

Init ==
    /\ global_state = NoGlobalState
    /\ pool = NoPool
    /\ users = [s \in Stakers |-> NoUser]
    /\ clock = Big(StartTime)
    /\ last = Call("none", "", <<>>, Zero)
    /\ terms_at_lock = [s \in Stakers |-> PoolTerms(NoPool)]
    /\ calls = 0
    /\ ticks = 0

Tick ==
    \E dt \in TimeSteps :
        /\ ticks < MaxTicks
        /\ ticks' = ticks + 1
        /\ clock' = BigAdd(clock, Big(dt))
        /\ last' = Call("tick", "", <<>>, Zero)
        /\ UNCHANGED <<global_state, pool, users, terms_at_lock, calls>>

Initialize ==
    \E payer \in Signers :
        /\ ~global_state.is_initialized
        /\ global_state' = initialize("alice")
        /\ last' = Call("initialize", payer, <<"alice">>, Zero)
        /\ UNCHANGED <<pool, users, clock, terms_at_lock, calls, ticks>>

CreatePool ==
    \E authority \in {"alice"}, r \in PoolRates, d \in PoolDurations, b \in PoolBonuses,
       overflow_checks \in BOOLEAN :
        /\ global_state.is_initialized
        /\ ~pool.is_initialized
        /\ u64_incr(global_state.pool_count, overflow_checks) # Panic
        /\ pool' = create_pool("wave", "stake_mint", "lst_mint", "reward_mint",
                               r, d, b, clock, authority)
        /\ global_state' = [global_state EXCEPT
               !.pool_count = u64_incr(global_state.pool_count, overflow_checks)]
        /\ last' = Call("create_pool", authority, <<r, d, b>>, Zero)
        /\ UNCHANGED <<users, clock, terms_at_lock, calls, ticks>>

CreateUserAccount ==
    \E payer \in Stakers :
        /\ pool.is_initialized
        /\ ~users[payer].is_initialized
        /\ users' = [users EXCEPT ![payer] = create_user_account(clock)]
        /\ terms_at_lock' = [terms_at_lock EXCEPT ![payer] = PoolTerms(pool)]
        /\ last' = Call("create_user_account", payer, <<>>, Zero)
        /\ UNCHANGED <<global_state, pool, clock, calls, ticks>>

\* An instruction that returns Ok(()) writes its records back.  One that fails
\* leaves the ledger as it was: it is no step of the ledger, and what it would
\* return in a state is the value of its handler there.
Commit(op, signer, args, out) ==
    /\ out.err = "Ok"
    /\ pool' = out.pool
    /\ users' = [users EXCEPT ![signer] = out.user]
    /\ last' = Call(op, signer, args, out.reward)
    /\ calls' = calls + 1
    /\ UNCHANGED <<global_state, clock, ticks>>

Stake ==
    \E payer \in Stakers, amount \in Amounts, lock_type \in LockTypes,
       overflow_checks \in BOOLEAN :
        /\ calls < MaxCalls
        /\ pool.is_initialized
        /\ users[payer].is_initialized
        /\ Commit("stake", payer, <<amount, lock_type>>,
                  stake(pool, users[payer], clock, amount, lock_type, overflow_checks))
        /\ terms_at_lock' =
               IF is_new_user(users[payer])
               THEN [terms_at_lock EXCEPT ![payer] = PoolTerms(pool)]
               ELSE terms_at_lock

Unstake ==
    \E authority \in Stakers, amount \in Amounts, overflow_checks \in BOOLEAN :
        /\ calls < MaxCalls
        /\ pool.is_initialized
        /\ users[authority].is_initialized
        /\ Commit("unstake", authority, <<amount>>,
                  unstake(pool, users[authority], clock, amount, overflow_checks))
        /\ UNCHANGED terms_at_lock

ClaimRewards ==
    \E authority \in Stakers, overflow_checks \in BOOLEAN :
        /\ calls < MaxCalls
        /\ pool.is_initialized
        /\ users[authority].is_initialized
        /\ Commit("claim_rewards", authority, <<>>,
                  claim_rewards(pool, users[authority], clock, overflow_checks))
        /\ UNCHANGED terms_at_lock

UpdatePool ==
    \E authority \in Signers,
       r \in NewRates, d \in NewDurations, b \in NewBonuses :
        /\ calls < MaxCalls
        /\ pool.is_initialized
        /\ pool' = update_pool(pool, r, d, b)
        /\ last' = Call("update_pool", authority, <<r, d, b>>, Zero)
        /\ calls' = calls + 1
        /\ UNCHANGED <<global_state, users, clock, terms_at_lock, ticks>>

CloseUserAccount ==
    \E authority \in Stakers :
        /\ calls < MaxCalls
        /\ pool.is_initialized
        /\ users[authority].is_initialized
        /\ Commit("close_user_account", authority, <<>>,
                  close_user_account(pool, users[authority], clock))
        /\ terms_at_lock' = [terms_at_lock EXCEPT ![authority] = PoolTerms(NoPool)]

Next ==
    \/ Tick
    \/ Initialize
    \/ CreatePool
    \/ CreateUserAccount
    \/ Stake
    \/ Unstake
    \/ ClaimRewards
    \/ UpdatePool
    \/ CloseUserAccount

Spec == Init /\ [][Next]_vars

----------------------------------------------------------------------------
(* A ledger whose clock may also run backwards *)

\* Clock::get() returns a timestamp smaller than the one before.
Regress ==
    \E dt \in TimeSteps :
        /\ ticks < MaxTicks
        /\ ticks' = ticks + 1
        /\ clock' = BigSub(clock, Big(dt))
        /\ last' = Call("regress", "", <<>>, Zero)
        /\ UNCHANGED <<global_state, pool, users, terms_at_lock, calls>>

NextClock ==
    \/ Next
    \/ Regress

SpecClock == Init /\ [][NextClock]_vars

----------------------------------------------------------------------------
(* Properties *)

\* The pool and the User account of s exist.
Open(s) == pool.is_initialized /\ users[s].is_initialized

\* The instruction whose outcome is out left the records of s and the pool alone.
Untouched(out, s) == out.pool = pool /\ out.user = users[s]

\* The seconds since the last reward claim of s.
SinceClaim(s) == BigSub(clock, users[s].last_reward_claim_timestamp)

\* C1: a user with lock_type = 1 whose lock was set at time t0 in a pool whose
\* lock_duration was D then: at every time now < t0 + D, every unstake (of an
\* amount the user holds) and every close_user_account fails with
\* StillInLockPeriod and changes no record.
C1_LockedBeforeMaturity ==
    \A s \in Stakers, amount \in Amounts, checks \in BOOLEAN :
        ( /\ Open(s)
          /\ users[s].lock_type = 1
          /\ BigLt(clock, BigAdd(users[s].lock_start_timestamp,
                                 terms_at_lock[s].lock_duration)) )
        => /\ (BigLt(Zero, amount) /\ BigLeq(amount, users[s].amount))
                => /\ unstake(pool, users[s], clock, amount, checks).err
                          = "StillInLockPeriod"
                   /\ Untouched(unstake(pool, users[s], clock, amount, checks), s)
           /\ close_user_account(pool, users[s], clock).err = "StillInLockPeriod"
           /\ Untouched(close_user_account(pool, users[s], clock), s)

\* C2: unstake(amount) with 0 < amount <= user.amount succeeds whenever the
\* position is flexible, or is locked and now >= lock_end_timestamp: the reward
\* rate, the elapsed time and the bonus multiplier never make it fail.
C2_UnstakeSucceeds ==
    \A s \in Stakers, amount \in Amounts, checks \in BOOLEAN :
        ( /\ Open(s)
          /\ BigLt(Zero, amount) /\ BigLeq(amount, users[s].amount)
          /\ \/ users[s].lock_type # 1
             \/ i64_ge(clock, users[s].lock_end_timestamp) )
        => unstake(pool, users[s], clock, amount, checks).err = "Ok"

RECURSIVE SumAmounts(_)
SumAmounts(S) ==
    IF S = {} THEN Zero
    ELSE BigAdd(users[CHOOSE s \in S : TRUE].amount,
                SumAmounts(S \ {CHOOSE s \in S : TRUE}))

\* C3: in every reachable state pool.total_staked is the sum of the amounts of
\* the User records that exist.
C3_TotalIsSum ==
    pool.total_staked = SumAmounts({s \in Stakers : users[s].is_initialized})

\* The reward as the specification states it:
\*   share_bp = floor(amount * 10000 / total_staked), 0 when total_staked = 0
\*   reward = floor(floor(floor(rps * dt) * share_bp) * bonus / 10000) / 10000
SpecShare(amount, total_staked) ==
    IF total_staked = Zero THEN Zero
    ELSE BigDiv(BigMul(amount, Big(10000)), total_staked)
SpecReward(rps, dt, amount, total_staked, bonus) ==
    BigDiv(BigDiv(BigMul(BigMul(BigMul(rps, dt), SpecShare(amount, total_staked)),
                         Big(bonus)),
                  Big(10000)),
           Big(10000))

\* C4: the reward that claim_rewards and unstake compute is the reward of the
\* specification's formula.
C4_RewardFormula ==
    \A s \in Stakers, amount \in Amounts, checks \in BOOLEAN :
        Open(s) =>
            /\ claim_rewards(pool, users[s], clock, checks).err = "Ok"
                 => claim_rewards(pool, users[s], clock, checks).reward
                      = SpecReward(pool.reward_per_second, SinceClaim(s),
                                   users[s].amount, pool.total_staked,
                                   users[s].bonus_multiplier)
            /\ unstake(pool, users[s], clock, amount, checks).err = "Ok"
                 => unstake(pool, users[s], clock, amount, checks).reward
                      = SpecReward(pool.reward_per_second, SinceClaim(s),
                                   users[s].amount, pool.total_staked,
                                   users[s].bonus_multiplier)

\* C5: an update_pool signed by an identity other than the pool's stored
\* authority leaves the Pool record unchanged.
C5_AuthorityOnly ==
    [][ (last'.op = "update_pool" /\ last'.signer # pool.authority) => pool' = pool ]_vars

\* C6 as stated: for a flexible user whose amount is 0 and every amount > 0,
\* stake(amount, 0) and then unstake(amount) at the same timestamp both succeed,
\* and leave pool.total_staked at its value before the stake and user.amount 0.
C6_RoundTripAlwaysSucceeds ==
    \A s \in Stakers, amount \in Amounts, checks \in BOOLEAN :
        ( /\ Open(s)
          /\ BigLt(Zero, amount)
          /\ users[s].lock_type = 0 /\ users[s].amount = Zero )
        => LET staked == stake(pool, users[s], clock, amount, 0, checks)
               back == unstake(staked.pool, staked.user, clock, amount, checks)
           IN /\ staked.err = "Ok"
              /\ back.err = "Ok"
              /\ back.pool.total_staked = pool.total_staked
              /\ back.user.amount = Zero

\* C6, amended: when the stake(amount, 0) of such a user succeeds, the
\* unstake(amount) at the same timestamp succeeds, and leaves pool.total_staked
\* at its value before the stake and user.amount 0.
C6_RoundTrip ==
    \A s \in Stakers, amount \in Amounts, checks \in BOOLEAN :
        ( /\ Open(s)
          /\ BigLt(Zero, amount)
          /\ users[s].lock_type = 0 /\ users[s].amount = Zero
          /\ stake(pool, users[s], clock, amount, 0, checks).err = "Ok" )
        => LET staked == stake(pool, users[s], clock, amount, 0, checks)
               back == unstake(staked.pool, staked.user, clock, amount, checks)
           IN /\ back.err = "Ok"
              /\ back.pool.total_staked = pool.total_staked
              /\ back.user.amount = Zero

\* A flexible user, alone in the pool, has staked and unstaked 500 at one timestamp.
C6_Witness ==
    /\ last.op = "unstake" /\ last.args = <<Big(500)>>
    /\ \A s \in Stakers : users[s].is_initialized <=> s = last.signer
    /\ users[last.signer].lock_type = 0
    /\ users[last.signer].amount = Zero
    /\ pool.last_update_timestamp = clock
    /\ users[last.signer].last_reward_claim_timestamp = clock
    /\ pool.total_staked = Zero

\* C7: a stake by a user whose amount is > 0 leaves the user's lock_type,
\* lock_start_timestamp, lock_end_timestamp and bonus_multiplier as they were,
\* for every lock_type argument and whatever the pool's lock terms are now.
C7_TopUpKeepsLockFields ==
    \A s \in Stakers, amount \in Amounts, lock_type \in LockTypes, checks \in BOOLEAN :
        (Open(s) /\ BigLt(Zero, users[s].amount))
        => LET out == stake(pool, users[s], clock, amount, lock_type, checks)
           IN /\ out.user.lock_type = users[s].lock_type
              /\ out.user.lock_start_timestamp = users[s].lock_start_timestamp
              /\ out.user.lock_end_timestamp = users[s].lock_end_timestamp
              /\ out.user.bonus_multiplier = users[s].bonus_multiplier

\* A top-up has succeeded whose lock_type argument is not the user's lock_type,
\* in a pool whose lock terms were changed since the user's first deposit.
C7_Witness ==
    /\ last.op = "stake"
    /\ users[last.signer].amount = Big(1000)
    /\ last.args[2] # users[last.signer].lock_type
    /\ PoolTerms(pool) # terms_at_lock[last.signer]

\* C8 as stated: claim_rewards on a pool whose total_staked is 0 fails with
\* NoRewardsAvailable, and changes no record.
C8_AlwaysNoRewardsAvailable ==
    \A s \in Stakers, checks \in BOOLEAN :
        (Open(s) /\ pool.total_staked = Zero)
        => /\ claim_rewards(pool, users[s], clock, checks).err = "NoRewardsAvailable"
           /\ Untouched(claim_rewards(pool, users[s], clock, checks), s)

\* C8, amended: claim_rewards on a pool whose total_staked is 0 never succeeds
\* and changes no record; it fails with MathOverflow when reward_per_second
\* times the elapsed seconds exceeds the u64 range, and with NoRewardsAvailable
\* otherwise.
C8_NeverClaimsOnEmptyPool ==
    \A s \in Stakers, checks \in BOOLEAN :
        (Open(s) /\ pool.total_staked = Zero)
        => /\ claim_rewards(pool, users[s], clock, checks).err =
                 IF BigLt(U64_MAX, BigMul(pool.reward_per_second, SinceClaim(s)))
                 THEN "MathOverflow" ELSE "NoRewardsAvailable"
           /\ Untouched(claim_rewards(pool, users[s], clock, checks), s)

\* A user of an empty pool that has emitted for some seconds is refused a claim.
C8_Witness ==
    \E s \in Stakers :
        /\ Open(s) /\ pool.total_staked = Zero
        /\ BigLt(Zero, BigMul(pool.reward_per_second, SinceClaim(s)))
        /\ claim_rewards(pool, users[s], clock, TRUE).err = "NoRewardsAvailable"

\* The largest i64.
I64_MAX == BigSub(Pow2(63), One)

\* Some arithmetic step of stake, unstake or claim_rewards has a true result
\* outside the range of the field it is computed in.
StakeExceeds(p, u, now, amount, lock_type) ==
    \/ /\ BigLt(p.last_update_timestamp, now) /\ BigLt(Zero, p.total_staked)
       /\ BigLt(U64_MAX,
                BigAdd(p.total_reward_distributed,
                       BigMul(p.reward_per_second, BigSub(now, p.last_update_timestamp))))
    \/ BigLt(U64_MAX, BigAdd(u.amount, amount))
    \/ /\ u.amount = Zero /\ lock_type = 1
       /\ \/ BigLt(I64_MAX, BigAdd(now, p.lock_duration))
          \/ 10000 + p.lock_bonus_percentage > U16_MAX
    \/ BigLt(U64_MAX, BigAdd(p.total_staked, amount))

RewardExceeds(p, u, now) ==
    BigLt(U64_MAX,
          BigMul(BigMul(BigMul(p.reward_per_second,
                               BigSub(now, u.last_reward_claim_timestamp)),
                        SpecShare(u.amount, p.total_staked)),
                 Big(u.bonus_multiplier)))

\* C9: in stake, unstake and claim_rewards an arithmetic step whose true result
\* does not fit its field makes the instruction fail with MathOverflow and
\* leave every record as it was.
C9_OverflowIsMathOverflow ==
    \A s \in Stakers, amount \in Amounts, lock_type \in LockTypes, checks \in BOOLEAN :
        (Open(s) /\ BigLt(Zero, amount))
        => /\ StakeExceeds(pool, users[s], clock, amount, lock_type)
                => /\ stake(pool, users[s], clock, amount, lock_type, checks).err
                          = "MathOverflow"
                   /\ Untouched(stake(pool, users[s], clock, amount, lock_type, checks), s)
           /\ ( /\ RewardExceeds(pool, users[s], clock)
                /\ unstake(pool, users[s], clock, amount, checks).err
                      \notin {"InsufficientStake", "StillInLockPeriod"} )
                => /\ unstake(pool, users[s], clock, amount, checks).err = "MathOverflow"
                   /\ Untouched(unstake(pool, users[s], clock, amount, checks), s)
           /\ RewardExceeds(pool, users[s], clock)
                => /\ claim_rewards(pool, users[s], clock, checks).err = "MathOverflow"
                   /\ Untouched(claim_rewards(pool, users[s], clock, checks), s)

\* C10: every User record has 10000 <= bonus_multiplier <= 10000 + the pool's
\* lock_bonus_percentage when the user's lock fields were set, and with
\* lock_type = 1 has lock_end_timestamp = lock_start_timestamp + the pool's
\* lock_duration at that time.
C10_LockFields ==
    \A s \in Stakers :
        users[s].is_initialized
        => /\ users[s].bonus_multiplier >= 10000
           /\ users[s].bonus_multiplier <= 10000 + terms_at_lock[s].lock_bonus_percentage
           /\ users[s].lock_type = 1
                => /\ ~IsNeg(users[s].lock_end_timestamp)
                   /\ users[s].lock_end_timestamp =
                          BigAdd(users[s].lock_start_timestamp,
                                 terms_at_lock[s].lock_duration)

\* C11: update_pool overwrites exactly the Pool fields whose argument is present
\* and leaves every other Pool field as it was; with three absent arguments it
\* leaves the whole Pool record as it was.
C11_UpdatePoolFrame ==
    [][ last'.op = "update_pool"
        => /\ pool'.reward_per_second =
                  IF last'.args[1] # None THEN last'.args[1] ELSE pool.reward_per_second
           /\ pool'.lock_duration =
                  IF last'.args[2] # None THEN last'.args[2] ELSE pool.lock_duration
           /\ pool'.lock_bonus_percentage =
                  IF last'.args[3] # NoneU16 THEN last'.args[3]
                  ELSE pool.lock_bonus_percentage
           /\ pool'.is_initialized = pool.is_initialized
           /\ pool'.pool_id = pool.pool_id
           /\ pool'.stake_mint = pool.stake_mint
           /\ pool'.lst_mint = pool.lst_mint
           /\ pool'.reward_mint = pool.reward_mint
           /\ pool'.total_staked = pool.total_staked
           /\ pool'.total_reward_distributed = pool.total_reward_distributed
           /\ pool'.last_update_timestamp = pool.last_update_timestamp
           /\ pool'.authority = pool.authority
           /\ last'.args = <<None, None, NoneU16>> => pool' = pool ]_vars

\* An update_pool with a present rate and bonus and an absent duration has run on
\* a pool that holds a stake and has distributed rewards.
C11_Witness ==
    /\ last.op = "update_pool"
    /\ last.args = <<U64_MAX, None, 60000>>
    /\ pool.reward_per_second = U64_MAX
    /\ pool.lock_duration = Big(20)
    /\ pool.lock_bonus_percentage = 60000
    /\ pool.total_staked = Big(500)
    /\ BigLt(Zero, pool.total_reward_distributed)

\* C12: pool.total_reward_distributed never decreases: every instruction leaves
\* it equal to or larger than it was.
C12_DistributedNeverDecreases ==
    [][ BigLeq(pool.total_reward_distributed, pool'.total_reward_distributed) ]_vars

\* The total has grown twice: by a claim of 10000000, and then by the catch-up
\* of a stake 10 seconds later (100 per second).
C12_Witness ==
    /\ last.op = "stake"
    /\ pool.total_reward_distributed = Big(10001000)

\* The emission the pool catch-up of a stake at time now adds: reward_per_second
\* times the seconds since pool.last_update_timestamp when those are > 0 and
\* something is staked, and 0 otherwise.
CatchUpEmission(p, now) ==
    IF BigLt(p.last_update_timestamp, now) /\ BigLt(Zero, p.total_staked)
    THEN BigMul(p.reward_per_second, BigSub(now, p.last_update_timestamp))
    ELSE Zero

\* C13: a successful stake at time now adds exactly the catch-up emission to
\* pool.total_reward_distributed (reward_per_second * dt when dt > 0 and the
\* total staked before the deposit is > 0, else 0), and sets
\* pool.last_update_timestamp to now, also when nothing was staked.
C13_StakeCatchesUp ==
    \A s \in Stakers, amount \in Amounts, lock_type \in LockTypes, checks \in BOOLEAN :
        Open(s) =>
            LET out == stake(pool, users[s], clock, amount, lock_type, checks)
            IN out.err = "Ok" =>
                 /\ out.pool.total_reward_distributed =
                        BigAdd(pool.total_reward_distributed, CatchUpEmission(pool, clock))
                 /\ out.pool.last_update_timestamp = clock

\* A second stake, 10 seconds after the first, has added 100 * 10 to the total
\* distributed and moved last_update_timestamp to now.
C13_Witness ==
    /\ last.op = "stake"
    /\ pool.total_staked = Big(1000)
    /\ pool.total_reward_distributed = Big(1000)
    /\ pool.last_update_timestamp = clock
    /\ clock = Big(StartTime + 10)

\* The reward of the user u at time now as claim_rewards computes it, step by
\* step in unbounded arithmetic, and whether every step fits u64 (otherwise the
\* instruction stops with MathOverflow and computes no reward).
Emission(p, u, now) == BigMul(p.reward_per_second, BigSub(now, u.last_reward_claim_timestamp))
Shared(p, u, now) == BigMul(Emission(p, u, now), SpecShare(u.amount, p.total_staked))
Boosted(p, u, now) == BigMul(Shared(p, u, now), Big(u.bonus_multiplier))
RewardComputed(p, u, now) ==
    /\ BigLeq(Emission(p, u, now), U64_MAX)
    /\ BigLeq(Shared(p, u, now), U64_MAX)
    /\ BigLeq(Boosted(p, u, now), U64_MAX)
ComputedReward(p, u, now) == BigDiv(Boosted(p, u, now), Big(10000))

\* C14: a successful claim_rewards has computed a reward > 0, sets
\* user.last_reward_claim_timestamp to now, adds exactly that reward to
\* pool.total_reward_distributed and changes no other field of the User and the
\* Pool record; when the computed reward is 0 it fails with NoRewardsAvailable
\* and changes nothing.
C14_ClaimRewards ==
    \A s \in Stakers, checks \in BOOLEAN :
        Open(s) =>
            LET out == claim_rewards(pool, users[s], clock, checks)
                reward == ComputedReward(pool, users[s], clock)
            IN /\ out.err = "Ok" =>
                    /\ RewardComputed(pool, users[s], clock)
                    /\ BigLt(Zero, reward)
                    /\ out.reward = reward
                    /\ out.user = [users[s] EXCEPT !.last_reward_claim_timestamp = clock]
                    /\ out.pool = [pool EXCEPT !.total_reward_distributed =
                                       BigAdd(pool.total_reward_distributed, reward)]
               /\ (RewardComputed(pool, users[s], clock) /\ reward = Zero) =>
                    /\ out.err = "NoRewardsAvailable"
                    /\ Untouched(out, s)

\* A user with a locked position has claimed a reward 10 seconds after the stake: the
\* reward is in the pool's total, and a second claim now would compute 0.
C14_Witness ==
    /\ last.op = "claim_rewards"
    /\ BigLt(Zero, last.reward)
    /\ pool.total_reward_distributed = last.reward
    /\ users[last.signer].lock_type = 1
    /\ BigLt(Zero, users[last.signer].amount)
    /\ users[last.signer].last_reward_claim_timestamp = clock
    /\ ComputedReward(pool, users[last.signer], clock) = Zero

\* C15: a user whose amount has returned to 0 by an unstake and who stakes again
\* is treated as new: the stake sets lock_type to its argument and, for
\* lock_type = 1, lock_start_timestamp = now, lock_end_timestamp = now + the
\* pool's current lock_duration and bonus_multiplier = 10000 + the pool's
\* current lock_bonus_percentage; for any other lock_type both lock timestamps
\* are 0 and bonus_multiplier is 10000.
C15_RestakeIsNew ==
    \A s \in Stakers, amount \in Amounts, lock_type \in LockTypes \cup {2},
       checks \in BOOLEAN :
        ( /\ Open(s)
          /\ last.op = "unstake" /\ last.signer = s
          /\ users[s].amount = Zero )
        => LET out == stake(pool, users[s], clock, amount, lock_type, checks)
           IN out.err = "Ok" =>
                /\ out.user.lock_type = lock_type
                /\ lock_type = 1 =>
                     /\ out.user.lock_start_timestamp = clock
                     /\ out.user.lock_end_timestamp = BigAdd(clock, pool.lock_duration)
                     /\ out.user.bonus_multiplier = 10000 + pool.lock_bonus_percentage
                /\ lock_type # 1 =>
                     /\ out.user.lock_start_timestamp = Zero
                     /\ out.user.lock_end_timestamp = Zero
                     /\ out.user.bonus_multiplier = 10000

\* C16: a successful unstake performs no pool catch-up and persists no reward:
\* of the Pool record it changes only total_staked, and of the User record only
\* amount and last_reward_claim_timestamp (set to now); both amounts are reduced
\* by exactly the argument.
C16_UnstakeFrame ==
    \A s \in Stakers, amount \in Amounts, checks \in BOOLEAN :
        Open(s) =>
            LET out == unstake(pool, users[s], clock, amount, checks)
            IN out.err = "Ok" =>
                 /\ BigLeq(amount, users[s].amount) /\ BigLeq(amount, pool.total_staked)
                 /\ out.pool = [pool EXCEPT !.total_staked = BigSub(pool.total_staked, amount)]
                 /\ out.user = [users[s] EXCEPT
                                    !.amount = BigSub(users[s].amount, amount),
                                    !.last_reward_claim_timestamp = clock]

\* An unstake has run 10 seconds after the pool was last caught up, with a
\* pending reward > 0 that it only reported.
C16_Witness ==
    /\ last.op = "unstake"
    /\ BigLt(Zero, last.reward)
    /\ BigLt(pool.last_update_timestamp, clock)
    /\ pool.total_reward_distributed = Zero
    /\ users[last.signer].last_reward_claim_timestamp = clock

C18_ClockRegressionRejected ==
    \A s \in Stakers, amount \in Amounts, lock_type \in LockTypes, checks \in BOOLEAN :
        Open(s) =>
            /\ BigLt(clock, pool.last_update_timestamp) =>
                 /\ stake(pool, users[s], clock, amount, lock_type, checks).err # "Ok"
                 /\ Untouched(stake(pool, users[s], clock, amount, lock_type, checks), s)
            /\ BigLt(clock, users[s].last_reward_claim_timestamp) =>
                 /\ unstake(pool, users[s], clock, amount, checks).err # "Ok"
                 /\ Untouched(unstake(pool, users[s], clock, amount, checks), s)
                 /\ claim_rewards(pool, users[s], clock, checks).err # "Ok"
                 /\ Untouched(claim_rewards(pool, users[s], clock, checks), s)

\* C19: in every reachable state pool.total_staked is at least the sum of the
\* amounts of the User records that exist; hence the subtraction of an unstake
\* amount <= user.amount from pool.total_staked never underflows.
C19_TotalCoversAmounts ==
    /\ BigLeq(SumAmounts({s \in Stakers : users[s].is_initialized}), pool.total_staked)
    /\ \A s \in Stakers, amount \in Amounts :
           (Open(s) /\ BigLt(Zero, amount) /\ BigLeq(amount, users[s].amount))
           => checked_sub(pool.total_staked, amount) # None

\* One of two positions of 500 has been closed: the pool's total is 1000, the
\* remaining amounts sum to 500, and the remaining user can unstake them.
C19_Witness ==
    /\ last.op = "close_user_account"
    /\ pool.total_staked = Big(1000)
    /\ SumAmounts({s \in Stakers : users[s].is_initialized}) = Big(500)
    /\ \E s \in Stakers : Open(s) /\ unstake(pool, users[s], clock, Big(500), TRUE).err = "Ok"

\* C20: no reward is claimed twice for one interval: right after a successful
\* stake, unstake or claim_rewards of a user, a claim_rewards of that user at
\* the same timestamp fails with NoRewardsAvailable and leaves
\* pool.total_reward_distributed (and every record) as it was.
C20_NoSecondClaim ==
    \A s \in Stakers, checks \in BOOLEAN :
        ( /\ Open(s)
          /\ last.op \in {"stake", "unstake", "claim_rewards"}
          /\ last.signer = s )
        => LET out == claim_rewards(pool, users[s], clock, checks)
           IN /\ out.err = "NoRewardsAvailable"
              /\ out.pool.total_reward_distributed = pool.total_reward_distributed
              /\ Untouched(out, s)

\* A user who holds the whole pool has just claimed a reward > 0.
C20_Witness ==
    /\ last.op = "claim_rewards"
    /\ BigLt(Zero, last.reward)
    /\ users[last.signer].amount = pool.total_staked
    /\ BigLt(Zero, users[last.signer].amount)
    /\ claim_rewards(pool, users[last.signer], clock, TRUE).err = "NoRewardsAvailable"

====
